---- MODULE Spec2Model ----
(***************************************************************************)
(* Task routing and execution tracking of gia-api: the POST /agent handler *)
(* (api/routes/agent/router.py), the session manager                       *)
(* (api/worker/session_manager.py), the task store                         *)
(* (api/worker/task_storage.py), the Celery tasks (api/worker/tasks.py),   *)
(* the agent registry (api/agents/registry.py) and the webhook client      *)
(* (api/worker/webhook_client.py).                                         *)
(*                                                                         *)
(* The persistent store is three tables.  A table maps a key to the        *)
(* sequence of rows that carry this key: the code inserts and updates by   *)
(* key, and nothing in the code itself keeps a key from occurring twice.   *)
(***************************************************************************)
EXTENDS Integers, Sequences, FiniteSets, TLC

\* ---------------------------------------------------------------- bounds
MaxReq == 2        \* HTTP requests handled
MaxIds == 3        \* task identifiers the broker / uuid4 hands out
MaxClock == 1      \* ticks of datetime.utcnow()
MaxApiCalls == 2   \* calls made by callers other than the HTTP handler

\* An optional value is the empty tuple (Python's None, a NULL column, an absent
\* dict entry) or a tuple that holds the value.
None == <<>>
Some(v) == <<v>>

Reqs == 1..MaxReq
Ids == 1..MaxIds

Projects == {"p1"}
Names == {"qa", "QA", "fly", " ", "", "fly ", "FLY "}
Keys == Projects \X Names \X Ids

\* str.lower() and str.strip() on the names of the model
Lower(n) ==
  IF n = "QA" THEN "qa" ELSE IF n = "FLY" THEN "fly" ELSE IF n = "FLY " THEN "fly " ELSE n
Strip(n) ==
  IF n = " " THEN "" ELSE IF n = "fly " THEN "fly" ELSE IF n = "FLY " THEN "FLY" ELSE n

Terminal == {"completed", "failed"}

VARIABLES
  agents,        \* AgentRegistry._agents: name -> the definition held, if any
  agentsTable,   \* store table "agents": name -> rows
  client,        \* the Supabase client: "none" (not configured), "up", "down"
  keyUnique,     \* whether the store rejects a second row with the same session_key or task_id
  req,           \* the POST /agent handler instances
  nextId,        \* next identifier of the broker / uuid4
  initQueue,     \* agent_initialization_queue
  resultQueue,   \* agent_results_queue
  celery,        \* Celery state of each task identifier
  posted,        \* result tasks enqueued by the initialization task of an identifier
  tasks,         \* store table "tasks": task_id -> rows
  active,        \* AgentSessionManager._active_sessions (API process memory)
  sessions,      \* store table "agent_sessions": session_key -> rows
  webhookLog,    \* calls of send_task_created_webhook, with what became of each
  now,           \* datetime.utcnow()
  apiCalls,      \* calls made so far by other callers
  saving,        \* save_task calls that have done their select and not yet their write
  idColumn,      \* whether the rows of the agents table carry an id
  ret,           \* what the last registry, routing or webhook call returned or raised
  wire,          \* the POST requests the webhook client has made, in order
  httpx,         \* HTTPX_AVAILABLE: whether the import of httpx succeeded
  contextLake    \* store table "context_lake": the rows inserted, in order

vars == <<agents, agentsTable, client, keyUnique, req, nextId, initQueue, resultQueue,
          celery, posted, tasks, active, sessions, webhookLog, now, apiCalls, saving,
          idColumn, ret, wire, httpx, contextLake>>

\* ------------------------------------------------------- dicts and tables
\* A dict is a function from the keys that are set; update and insert of the
\* store read the dict's keys only.
Dict(keys, f) == [k \in keys |-> f[k]]

UpdateRow(row, data) == [c \in DOMAIN row |-> IF c \in DOMAIN data THEN data[c] ELSE row[c]]

InsertRow(cols, data) == [c \in cols |-> IF c \in DOMAIN data THEN data[c] ELSE None]

\* table(...).update(data).eq(key, k): every row with this key is updated
UpdateRows(tbl, k, data) ==
  [tbl EXCEPT ![k] = [i \in 1..Len(tbl[k]) |-> UpdateRow(tbl[k][i], data)]]

\* table(...).insert(data)
InsertRows(tbl, k, cols, data) == [tbl EXCEPT ![k] = Append(tbl[k], InsertRow(cols, data))]

\* table(...).delete().eq(key, k)
DeleteRows(tbl, k) == [tbl EXCEPT ![k] = <<>>]

\* ------------------------------------------------------------ task store
TaskCols == {"status", "started_at", "completed_at", "result", "error"}

\* The parameters of save_task.  A call that passes any other keyword does not
\* bind: Python raises TypeError before the body runs.
SaveTaskParams ==
  {"task_id", "project_id", "queue_name", "agent_name", "context", "status", "result", "error"}

SaveTaskBinds(kw) == kw \subseteq SaveTaskParams

\* The dict save_task builds.  It is fresh in every call, so it never holds
\* started_at or completed_at when the two timestamp tests read it.
SaveTaskDataAt(status, result, error, at) ==
  LET keys0 == {"status"} \cup (IF result # None THEN {"result"} ELSE {})
                          \cup (IF error # None THEN {"error"} ELSE {})
      keys  == IF status = "processing" /\ "started_at" \notin keys0
                 THEN keys0 \cup {"started_at"}
               ELSE IF status \in Terminal /\ "completed_at" \notin keys0
                 THEN keys0 \cup {"completed_at"}
               ELSE keys0
  IN Dict(keys, [status |-> status, result |-> result, error |-> error,
                 started_at |-> Some(at), completed_at |-> Some(at)])

SaveTaskData(status, result, error) == SaveTaskDataAt(status, result, error, now)

\* save_task: the tasks table after the call.  Without a client it returns
\* False at once; a store error is caught and it returns False.
SaveTask(tbl, id, status, result, error) ==
  IF client # "up" THEN tbl
  ELSE IF Len(tbl[id]) > 0
    THEN UpdateRows(tbl, id, SaveTaskData(status, result, error))
    ELSE InsertRows(tbl, id, TaskCols, SaveTaskData(status, result, error))

\* result.update(meta), or meta alone when no result is passed
MergeMeta(result, meta) ==
  IF meta = None THEN result ELSE IF result = None THEN meta ELSE result \o meta

UpdateTaskData(status, result, error, meta) ==
  LET res  == MergeMeta(result, meta)
      keys == {"status"} \cup (IF status = "processing" THEN {"started_at"} ELSE {})
                         \cup (IF status \in Terminal THEN {"completed_at"} ELSE {})
                         \cup (IF res # None THEN {"result"} ELSE {})
                         \cup (IF error # None THEN {"error"} ELSE {})
  IN Dict(keys, [status |-> status, result |-> res, error |-> error,
                 started_at |-> Some(now), completed_at |-> Some(now)])

\* update_task_status: an update by task_id, never an insert
UpdateTaskStatus(tbl, id, status, result, error, meta) ==
  IF client # "up" THEN tbl
  ELSE UpdateRows(tbl, id, UpdateTaskData(status, result, error, meta))

\* ------------------------------------------------------- session manager
SessionCols == {"status", "execution_type", "worker_id", "fly_machine_id", "completed_at"}

FlyMachineId(a, p) == <<"fly_machine", a, p>>

\* a lookup that hands back a local definition for a name that is not held
GetAgentOrDefault(a) ==
  IF agents[a] = None
    THEN Some([name |-> a, execution_type |-> "local", role |-> "r1", fly_machine_id |-> None])
    ELSE agents[a]

GetAgent(a) == agents[a]

\* route_agent_task raises ValueError for a name the registry does not hold
RouteRaises(a) == GetAgent(a) = None

ExecutionType(a) == GetAgent(a)[1].execution_type

\* the queue that task_routes gives to worker.tasks.agent_initialization
LocalQueue == "agent_initialization_queue"

\* a local session that is registered under the name of the queue
WorkerIdQueue(p, a) ==
  IF ExecutionType(a) = "local" THEN Some(LocalQueue) ELSE FlyMachineId(a, p)

\* _route_to_celery passes worker_id="celery"; _route_to_fly_machine passes the
\* placeholder it builds, whatever fly_machine_id the definition carries
WorkerId(p, a) ==
  IF ExecutionType(a) = "local" THEN Some("celery") ELSE FlyMachineId(a, p)

\* a registration that keeps in memory only what the store can take
RegisterActiveIfStored(act, key, exec, worker, status) ==
  IF client = "up"
    THEN [act EXCEPT ![key] = Some([status |-> status, execution_type |-> exec,
                                    worker_id |-> worker, fly_machine_id |-> None])]
    ELSE act

\* _register_session, in memory: the entry of the key is replaced
RegisterActive(act, key, exec, worker, status) ==
  [act EXCEPT ![key] = Some([status |-> status, execution_type |-> exec,
                             worker_id |-> worker, fly_machine_id |-> None])]

\* a registration that updates the rows of a key the store holds already
RegisterStoreUpdating(tbl, key, exec, worker, status, fly) ==
  IF client = "up"
    THEN IF Len(tbl[key]) > 0
           THEN UpdateRows(tbl, key, [status |-> status, execution_type |-> exec,
                                      worker_id |-> worker])
           ELSE InsertRows(tbl, key, SessionCols,
                           [status |-> status, execution_type |-> exec, worker_id |-> worker])
    ELSE tbl

\* _register_session, in the store: a plain insert; an error is caught
RegisterStore(tbl, key, exec, worker, status, fly) ==
  IF client = "up" /\ ~(keyUnique /\ Len(tbl[key]) > 0)
    THEN InsertRows(tbl, key, SessionCols,
                    Dict({"status", "execution_type", "worker_id"}
                           \cup (IF fly # None THEN {"fly_machine_id"} ELSE {}),
                         [status |-> status, execution_type |-> exec,
                          worker_id |-> worker, fly_machine_id |-> fly]))
    ELSE tbl

\* route_agent_task for a registered agent: the memory and the store after it
RouteActive(p, a, t) ==
  RegisterActive(active, <<p, a, t>>, ExecutionType(a), WorkerId(p, a), "routed")

RouteSessions(p, a, t) ==
  RegisterStore(sessions, <<p, a, t>>, ExecutionType(a), WorkerId(p, a), "routed",
                IF ExecutionType(a) = "local" THEN None ELSE FlyMachineId(a, p))

\* the dict update_session_status sends: status, the keyword arguments, and
\* completed_at for a terminal status
SessionUpdateData(status, fly) ==
  Dict({"status"} \cup (IF fly # None THEN {"fly_machine_id"} ELSE {})
                  \cup (IF status \in Terminal THEN {"completed_at"} ELSE {}),
       [status |-> status, fly_machine_id |-> fly, completed_at |-> Some(now)])

\* an update that makes the entry of a key that is not held
UpdateActiveUpserting(act, key, status, fly) ==
  [act EXCEPT ![key] =
     IF @ # None
       THEN Some(UpdateRow(@[1], [status |-> status]))
       ELSE Some([status |-> status, execution_type |-> "local", worker_id |-> None,
                  fly_machine_id |-> fly])]

\* update_session_status, in memory: only a session that is held is changed
UpdateActive(act, key, status, fly) ==
  IF act[key] # None
    THEN [act EXCEPT ![key] =
            Some(UpdateRow(@[1],
                           Dict({"status"} \cup (IF fly # None THEN {"fly_machine_id"} ELSE {}),
                                [status |-> status, fly_machine_id |-> fly])))]
    ELSE act

\* an update that replaces the rows of the key instead of changing them
UpdateSessionsReplacing(tbl, key, status, fly) ==
  IF client = "up" /\ Len(tbl[key]) > 0
    THEN InsertRows(DeleteRows(tbl, key), key, SessionCols, SessionUpdateData(status, fly))
    ELSE tbl

\* update_session_status, in the store: an update by session_key
UpdateSessions(tbl, key, status, fly) ==
  IF client = "up" THEN UpdateRows(tbl, key, SessionUpdateData(status, fly)) ELSE tbl

\* get_session, where j is the row the select returns first: the memory entry
\* when the key is held; otherwise, with a reachable store, the first row of
\* the key, converted; otherwise None.  A store error is caught.
GetSession(key, j) ==
  IF active[key] # None THEN active[key]
  ELSE IF client = "up" /\ Len(sessions[key]) > 0
    THEN Some([c \in {"execution_type", "worker_id", "status"} |-> sessions[key][j][c]])
    ELSE None

\* get_active_sessions_for_project, as the keys of the sessions it lists: the
\* rows the store holds for the project when it returns any; the memory
\* entries of the project when it returns none, raises or is not configured
SessionsForProject(p) ==
  LET stored == {k \in Keys : k[1] = p /\ Len(sessions[k]) > 0}
  IN IF client = "up" /\ stored # {}
       THEN stored
       ELSE {k \in Keys : k[1] = p /\ active[k] # None}

\* get_active_sessions_for_agent: the same, by agent name
SessionsForAgent(a) ==
  LET stored == {k \in Keys : k[2] = a /\ Len(sessions[k]) > 0}
  IN IF client = "up" /\ stored # {}
       THEN stored
       ELSE {k \in Keys : k[2] = a /\ active[k] # None}

\* --------------------------------------------------------------- registry
\* the registrations made while requests are served: a remote agent, a name
\* that differs from a built-in one by case, a blank name
Registrations ==
  {[name |-> "fly", execution_type |-> "remote", role |-> "r1", fly_machine_id |-> None],
   [name |-> "QA", execution_type |-> "local", role |-> "r1", fly_machine_id |-> None],
   [name |-> " ", execution_type |-> "local", role |-> "r1", fly_machine_id |-> None]}

\* the agent names of the requests: a built-in agent, and one that is unknown
\* until it is registered
RequestNames == {"qa", "fly"}

AgentCols == {"role"}

\* a check that leaves out the test for an empty name
RegisterRaisesConflictOnly(d) ==
  \E n \in Names : agents[n] # None /\ Lower(n) = Lower(Strip(d.name)) /\ n # d.name

\* register_agent raises ValueError: an empty name, or a name that differs
\* from a registered one by case only
RegisterRaises(d) ==
  \/ Strip(d.name) = ""
  \/ \E n \in Names : agents[n] # None /\ Lower(n) = Lower(Strip(d.name)) /\ n # d.name

\* what a call hands back: which call it was, its name argument, the
\* definition it was given, what it returned or raised, for sync_all the
\* store writes it issued and the summary it returned, and for send_webhook
\* the arguments it was called with
Ret(op, name, agent, out) ==
  [call |-> apiCalls + 1, op |-> op, name |-> name, agent |-> agent, out |-> out,
   writes |-> 0, synced |-> 0, failed |-> 0, errors |-> {}, args |-> None]

\* the rows a select by name may hand back first: the query sets no order
FirstRows(tbl, name) == IF Len(tbl[name]) = 0 THEN {1} ELSE 1..Len(tbl[name])

\* _sync_to_supabase, where j is the row the select returns first: insert when
\* no row has the name; when row j differs, update it by id, or every row of the
\* name when the rows carry no id; nothing when row j is equal.  The six fields
\* compared and written are one column here.  An unreachable store raises, and
\* the table is as it was.
SyncToSupabase(tbl, d, j) ==
  IF client # "up" THEN tbl
  ELSE IF Len(tbl[d.name]) > 0
    THEN IF tbl[d.name][j].role # Some(d.role)
           THEN IF idColumn
                  THEN [tbl EXCEPT ![d.name][j] = UpdateRow(@, [role |-> Some(d.role)])]
                  ELSE UpdateRows(tbl, d.name, [role |-> Some(d.role)])
           ELSE tbl
    ELSE InsertRows(tbl, d.name, AgentCols, [role |-> Some(d.role)])

\* _delete_from_supabase, called under the try of delete_agent / update_agent
DeleteFromSupabase(tbl, name) == IF client = "up" THEN DeleteRows(tbl, name) ELSE tbl

register_agent(d) ==
  /\ apiCalls < MaxApiCalls
  /\ apiCalls' = apiCalls + 1
  /\ IF RegisterRaises(d)
       THEN /\ ret' = Ret("register_agent", d.name, Some(d), "ValueError")
            /\ UNCHANGED <<agents, agentsTable>>
       ELSE /\ agents' = [agents EXCEPT ![d.name] = Some(d)]
            /\ \E j \in FirstRows(agentsTable, d.name) :
                 agentsTable' = SyncToSupabase(agentsTable, d, j)
            /\ ret' = Ret("register_agent", d.name, Some(d), "True")
  /\ UNCHANGED <<contextLake, wire, httpx, saving, idColumn, client, keyUnique, req, nextId, initQueue, resultQueue,
                 celery, posted, tasks, active, sessions, webhookLog, now>>

\* del self._agents[name]
DeleteAgentsIfStored(ags, name) == IF client = "up" THEN [ags EXCEPT ![name] = None] ELSE ags

DeleteAgents(ags, name) == [ags EXCEPT ![name] = None]

delete_agent(name) ==
  /\ apiCalls < MaxApiCalls
  /\ apiCalls' = apiCalls + 1
  /\ IF agents[name] = None
       THEN /\ ret' = Ret("delete_agent", name, None, "False")
            /\ UNCHANGED <<agents, agentsTable>>
       ELSE /\ agents' = DeleteAgents(agents, name)
            /\ agentsTable' = DeleteFromSupabase(agentsTable, name)
            /\ ret' = Ret("delete_agent", name, None, "True")
  /\ UNCHANGED <<contextLake, wire, httpx, saving, idColumn, client, keyUnique, req, nextId, initQueue, resultQueue,
                 celery, posted, tasks, active, sessions, webhookLog, now>>

\* an update that leaves the entry of the old name in the dict
UpdateAgentsKeepingOld(ags, name, d) == [ags EXCEPT ![d.name] = Some(d)]

\* update_agent, in memory: the old entry goes when the name changes
UpdateAgents(ags, name, d) ==
  [(IF name # d.name THEN DeleteAgents(ags, name) ELSE ags) EXCEPT ![d.name] = Some(d)]

\* update_agent, in the store: the rows of the old name are deleted when the
\* name changes, then the definition is synced; both stand in one try
UpdateStore(tbl, name, d, j) ==
  SyncToSupabase(IF name # d.name THEN DeleteFromSupabase(tbl, name) ELSE tbl, d, j)

update_agent(name, d) ==
  /\ apiCalls < MaxApiCalls
  /\ apiCalls' = apiCalls + 1
  /\ IF agents[name] = None
       THEN /\ ret' = Ret("update_agent", name, Some(d), "False")
            /\ UNCHANGED <<agents, agentsTable>>
       ELSE /\ agents' = UpdateAgents(agents, name, d)
            /\ \E j \in FirstRows(agentsTable, d.name) :
                 agentsTable' = UpdateStore(agentsTable, name, d, j)
            /\ ret' = Ret("update_agent", name, Some(d), "True")
  /\ UNCHANGED <<contextLake, wire, httpx, saving, idColumn, client, keyUnique, req, nextId, initQueue, resultQueue,
                 celery, posted, tasks, active, sessions, webhookLog, now>>

Registered == {n \in Names : agents[n] # None}

\* the loop of sync_all_to_supabase: the agents in F are those whose store call
\* raises; each of the others is synced, and the sync of an agent touches the
\* rows of its own name only
SyncAll(tbl, F, j) ==
  [n \in Names |->
     IF n \in Registered \ F
       THEN SyncToSupabase(tbl, agents[n][1], IF j <= Len(tbl[n]) THEN j ELSE 1)[n]
       ELSE tbl[n]]

\* the dict sync_all_to_supabase returns
SyncAllResult(tbl, F, j) ==
  IF client = "none"
    THEN [Ret("sync_all_to_supabase", "", None, "dict") EXCEPT
            !.failed = Cardinality(Registered),
            !.errors = {"Supabase client not initialized"}]
    ELSE [Ret("sync_all_to_supabase", "", None, "dict") EXCEPT
            !.writes = Cardinality({n \in Names : SyncAll(tbl, F, j)[n] # tbl[n]}),
            !.synced = Cardinality(Registered \ F),
            !.failed = Cardinality(Registered \cap F),
            !.errors = Registered \cap F]

\* with the store unreachable every agent's call raises
sync_all_to_supabase(F, j) ==
  LET G == IF client = "down" THEN Registered ELSE F
  IN /\ apiCalls < MaxApiCalls
     /\ apiCalls' = apiCalls + 1
     /\ agentsTable' = SyncAll(agentsTable, G, j)
     /\ ret' = SyncAllResult(agentsTable, G, j)
     /\ UNCHANGED <<contextLake, wire, httpx, saving, idColumn, agents, client, keyUnique, req, nextId, initQueue,
                    resultQueue, celery, posted, tasks, active, sessions, webhookLog, now>>

\* ----------------------------------------------------- POST /agent handler
\* keywords of the handler's two save_task calls
HandlerSaveKw ==
  {"task_id", "project_id", "queue_name", "task_type", "agent_name", "context", "status"}

\* lines 33-60: the agent is looked up; an unknown name is answered 404; a
\* remote agent gets its task identifier from uuid4
process_agent_validate(r, p, a) ==
  /\ req[r].pc = "idle"
  /\ IF GetAgent(a) = None
       THEN /\ req' = [req EXCEPT ![r] = [@ EXCEPT !.pc = "http404", !.project = p, !.agent = a]]
            /\ UNCHANGED nextId
       ELSE IF ExecutionType(a) = "remote"
         THEN /\ nextId <= MaxIds
              /\ req' = [req EXCEPT ![r] = [pc |-> "route", project |-> p, agent |-> a,
                                            task_id |-> nextId, exec |-> "remote"]]
              /\ nextId' = nextId + 1
         ELSE /\ req' = [req EXCEPT ![r] = [@ EXCEPT !.pc = "delay", !.project = p,
                                                     !.agent = a, !.exec = "local"]]
              /\ UNCHANGED nextId
  /\ UNCHANGED <<contextLake, wire, httpx, saving, idColumn, ret,
                 agents, agentsTable, client, keyUnique, initQueue, resultQueue, celery,
                 posted, tasks, active, sessions, webhookLog, now, apiCalls>>

\* lines 127-134: agent_initialization_task.delay(...); the broker issues the id
process_agent_delay(r) ==
  /\ req[r].pc = "delay"
  /\ nextId <= MaxIds
  /\ initQueue' = initQueue \cup {[id |-> nextId, project_id |-> req[r].project,
                                   agent_name |-> req[r].agent]}
  /\ nextId' = nextId + 1
  /\ req' = [req EXCEPT ![r].pc = "route", ![r].task_id = nextId]
  /\ UNCHANGED <<contextLake, wire, httpx, saving, idColumn, ret,
                 agents, agentsTable, client, keyUnique, resultQueue, celery, posted,
                 tasks, active, sessions, webhookLog, now, apiCalls>>

\* lines 82-87 and 138-143: session_manager.route_agent_task(...)
process_agent_route(r) ==
  /\ req[r].pc = "route"
  /\ IF RouteRaises(req[r].agent)
       THEN /\ req' = [req EXCEPT ![r].pc = "http500"]
            /\ UNCHANGED <<active, sessions>>
       ELSE /\ active' = RouteActive(req[r].project, req[r].agent, req[r].task_id)
            /\ sessions' = RouteSessions(req[r].project, req[r].agent, req[r].task_id)
            /\ req' = [req EXCEPT ![r].pc = IF req[r].exec = "remote" THEN "update" ELSE "save"]
  /\ UNCHANGED <<contextLake, wire, httpx, saving, idColumn, ret,
                 agents, agentsTable, client, keyUnique, nextId, initQueue, resultQueue,
                 celery, posted, tasks, webhookLog, now, apiCalls>>

\* lines 89-94: the remote session is set to routed_to_fly
process_agent_update(r) ==
  LET key == <<req[r].project, req[r].agent, req[r].task_id>>
      fly == FlyMachineId(req[r].agent, req[r].project)
  IN /\ req[r].pc = "update"
     /\ active' = UpdateActive(active, key, "routed_to_fly", fly)
     /\ sessions' = UpdateSessions(sessions, key, "routed_to_fly", fly)
     /\ req' = [req EXCEPT ![r].pc = "save"]
     /\ UNCHANGED <<contextLake, wire, httpx, saving, idColumn, ret,
                    agents, agentsTable, client, keyUnique, nextId, initQueue, resultQueue,
                    celery, posted, tasks, webhookLog, now, apiCalls>>

\* lines 104-122 and 147-164: save_task(...) and the response
process_agent_save(r) ==
  /\ req[r].pc = "save"
  /\ IF SaveTaskBinds(HandlerSaveKw)
       THEN /\ tasks' = SaveTask(tasks, req[r].task_id,
                                 IF req[r].exec = "remote" THEN "routed_to_fly" ELSE "pending",
                                 None, None)
            /\ req' = [req EXCEPT ![r].pc = "http200"]
       ELSE /\ req' = [req EXCEPT ![r].pc = "http500"]
            /\ UNCHANGED tasks
  /\ UNCHANGED <<contextLake, wire, httpx, saving, idColumn, ret,
                 agents, agentsTable, client, keyUnique, nextId, initQueue, resultQueue,
                 celery, posted, active, sessions, webhookLog, now, apiCalls>>

\* ------------------------------------------------------------ Celery tasks
\* keywords of the save_task calls of agent_initialization_task
InitTaskSaveKw ==
  {"task_id", "project_id", "queue_name", "task_type", "agent_name", "context", "status",
   "result", "error"}

\* keywords of the save_task calls of process_agent_result_task
ResultTaskSaveKw ==
  {"task_id", "project_id", "queue_name", "task_type", "agent_name", "status", "result",
   "error", "parent_task_id"}

\* what the agent's process() does when it is called
Outcomes == {"returns", "raises"}

\* the payload agent_initialization_task hands to process_agent_result_task.delay
ResultPayload(id, m, status) ==
  [id |-> id, status |-> status, project_id |-> m.project_id,
   agent_name |-> m.agent_name, task_id |-> m.id]

\* what process_agent_result_task.delay does when it is called: the broker
\* takes the message, or the call raises
Delays == {"ok", "raises"}

\* agent_initialization_task, run by a worker on message m.  The first
\* save_task call stands inside the outer try: when it does not bind, the
\* handler of the outer try runs, and its own save_task call, which stands
\* before the delay of the error result, raises out of the task.  A delay
\* that raises is caught on both paths.
agent_initialization_task(m, outcome, delay) ==
  /\ m \in initQueue
  /\ initQueue' = initQueue \ {m}
  /\ IF SaveTaskBinds(InitTaskSaveKw)
       THEN LET status == IF outcome = "returns" THEN "completed" ELSE "failed"
                t1 == SaveTask(tasks, m.id, "processing", None, None)
            IN /\ nextId <= MaxIds
               /\ tasks' = SaveTask(t1, m.id, status,
                                    IF outcome = "returns" THEN Some("result") ELSE None,
                                    IF outcome = "returns" THEN None ELSE Some("error"))
               /\ resultQueue' = IF delay = "ok"
                                   THEN resultQueue \cup {ResultPayload(nextId, m, status)}
                                   ELSE resultQueue
               /\ posted' = IF delay = "ok" THEN [posted EXCEPT ![m.id] = @ + 1] ELSE posted
               /\ nextId' = IF delay = "ok" THEN nextId + 1 ELSE nextId
               /\ celery' = [celery EXCEPT ![m.id] =
                               [type |-> "init", process |-> outcome,
                                state |-> IF outcome = "returns" THEN "SUCCESS" ELSE "FAILURE"]]
       ELSE /\ celery' = [celery EXCEPT ![m.id] =
                            [type |-> "init", process |-> outcome, state |-> "FAILURE"]]
            /\ UNCHANGED <<tasks, resultQueue, posted, nextId>>
  /\ UNCHANGED <<contextLake, wire, httpx, saving, idColumn, ret,
                 agents, agentsTable, client, keyUnique, req, active, sessions, webhookLog,
                 now, apiCalls>>

\* a result task that writes the outcome into the record of the task it
\* was told of
ResultTaskTasksOfParent(tbl, m) ==
  UpdateTaskStatus(tbl, m.task_id, "processed", Some("result"), None, None)

\* the tasks table after process_agent_result_task: its one save_task call on
\* the way to its return is keyed by its own id, self.request.id
ResultTaskTasks(tbl, m) ==
  IF SaveTaskBinds(ResultTaskSaveKw)
    THEN SaveTask(tbl, m.id, "completed", Some("result"), None)
    ELSE tbl

\* process_agent_result_task, run by a worker on payload m: it saves its own
\* record and calls nothing of the webhook client
process_agent_result_task(m) ==
  /\ m \in resultQueue
  /\ resultQueue' = resultQueue \ {m}
  /\ tasks' = ResultTaskTasks(tasks, m)
  /\ celery' = [celery EXCEPT ![m.id] =
                  [type |-> "result", process |-> "none",
                   state |-> IF SaveTaskBinds(ResultTaskSaveKw) THEN "SUCCESS" ELSE "FAILURE"]]
  /\ UNCHANGED <<contextLake, wire, httpx, saving, idColumn, ret,
                 agents, agentsTable, client, keyUnique, req, nextId, initQueue, posted,
                 active, sessions, webhookLog, now, apiCalls>>

\* a producer publishes a payload on agent_results_queue (the task is
\* registered under worker.tasks.process_agent_result for any Celery client)
publish_result(p, a, t, status) ==
  /\ apiCalls < MaxApiCalls
  /\ nextId <= MaxIds
  /\ resultQueue' = resultQueue \cup {[id |-> nextId, status |-> status, project_id |-> p,
                                       agent_name |-> a, task_id |-> t]}
  /\ nextId' = nextId + 1
  /\ apiCalls' = apiCalls + 1
  /\ UNCHANGED <<contextLake, wire, httpx, saving, idColumn, ret,
                 agents, agentsTable, client, keyUnique, req, initQueue, celery, posted,
                 tasks, active, sessions, webhookLog, now>>

\* ------------------------------------------------- calls by other callers
route_agent_task(p, a, t) ==
  /\ apiCalls < MaxApiCalls
  /\ apiCalls' = apiCalls + 1
  /\ IF RouteRaises(a)
       THEN /\ ret' = Ret("route_agent_task", a, None, "ValueError")
            /\ UNCHANGED <<active, sessions>>
       ELSE /\ active' = RouteActive(p, a, t)
            /\ sessions' = RouteSessions(p, a, t)
            /\ ret' = Ret("route_agent_task", a, None, "dict")
  /\ UNCHANGED <<contextLake, wire, httpx, saving, idColumn,
                 agents, agentsTable, client, keyUnique, req, nextId, initQueue, resultQueue,
                 celery, posted, tasks, webhookLog, now>>

update_session_status(key, status, fly) ==
  /\ apiCalls < MaxApiCalls
  /\ apiCalls' = apiCalls + 1
  /\ active' = UpdateActive(active, key, status, fly)
  /\ sessions' = UpdateSessions(sessions, key, status, fly)
  /\ UNCHANGED <<contextLake, wire, httpx, saving, idColumn, ret,
                 agents, agentsTable, client, keyUnique, req, nextId, initQueue, resultQueue,
                 celery, posted, tasks, webhookLog, now>>

save_task(id, status, result, error) ==
  /\ apiCalls < MaxApiCalls
  /\ apiCalls' = apiCalls + 1
  /\ tasks' = SaveTask(tasks, id, status, result, error)
  /\ UNCHANGED <<contextLake, wire, httpx, saving, idColumn, ret,
                 agents, agentsTable, client, keyUnique, req, nextId, initQueue, resultQueue,
                 celery, posted, active, sessions, webhookLog, now>>

\* save_task as its two store calls.  Lines 78-110: the dict is built and the
\* select tells whether a row has the task_id; without a client, or when the
\* select raises, the call is over.
save_task_select(id, status, result, error) ==
  /\ apiCalls < MaxApiCalls
  /\ apiCalls' = apiCalls + 1
  /\ saving' = IF client = "up"
                 THEN saving \cup {[call |-> apiCalls, id |-> id, status |-> status,
                                    result |-> result, error |-> error, at |-> now,
                                    found |-> Len(tasks[id]) > 0]}
                 ELSE saving
  /\ UNCHANGED <<contextLake, wire, httpx, idColumn, ret, agents, agentsTable, client, keyUnique, req, nextId,
                 initQueue, resultQueue, celery, posted, tasks, active, sessions,
                 webhookLog, now>>

\* lines 112-121: the update when the select found a row, the insert when it
\* found none; a store error is caught
save_task_write(c) ==
  LET data == SaveTaskDataAt(c.status, c.result, c.error, c.at)
  IN /\ c \in saving
     /\ saving' = saving \ {c}
     /\ tasks' = IF client # "up" THEN tasks
                  ELSE IF c.found THEN UpdateRows(tasks, c.id, data)
                  ELSE IF keyUnique /\ Len(tasks[c.id]) > 0 THEN tasks
                  ELSE InsertRows(tasks, c.id, TaskCols, data)
     /\ UNCHANGED <<contextLake, wire, httpx, idColumn, ret, agents, agentsTable, client, keyUnique, req, nextId,
                    initQueue, resultQueue, celery, posted, active, sessions, webhookLog,
                    now, apiCalls>>

update_task_status(id, status, result, error, meta) ==
  /\ apiCalls < MaxApiCalls
  /\ apiCalls' = apiCalls + 1
  /\ tasks' = UpdateTaskStatus(tasks, id, status, result, error, meta)
  /\ UNCHANGED <<contextLake, wire, httpx, saving, idColumn, ret,
                 agents, agentsTable, client, keyUnique, req, nextId, initQueue, resultQueue,
                 celery, posted, active, sessions, webhookLog, now>>

\* send_task_created_webhook -> send_webhook: without URL and secret nothing
\* is sent; otherwise one POST, delivered when the response is 200
WebhookOutcome(configured, response) ==
  IF ~configured THEN "skipped" ELSE IF response = "200" THEN "delivered" ELSE "failed"

send_task_created_webhook(id, status, configured, response) ==
  /\ apiCalls < MaxApiCalls
  /\ apiCalls' = apiCalls + 1
  /\ webhookLog' = webhookLog \cup {[task_id |-> id, status |-> status,
                                     outcome |-> WebhookOutcome(configured, response)]}
  /\ UNCHANGED <<contextLake, wire, httpx, saving, idColumn, ret,
                 agents, agentsTable, client, keyUnique, req, nextId, initQueue, resultQueue,
                 celery, posted, tasks, active, sessions, now>>

\* --------------------------------------------------------- webhook client
\* Strings are sequences of tokens.  datetime.utcnow().strftime(...) + "Z":
TimeStrings == <<"t0", "t1", "t2", "t3">>

Timestamp(t) == TimeStrings[t + 1]

\* the keys of webhook_payload, in the order json.dumps writes them with
\* sort_keys=True, and in the order the dict literal sets them
SortedKeys == <<"event_type", "payload", "project_id", "timestamp">>
InsertionKeys == <<"event_type", "project_id", "timestamp", "payload">>

\* json.dumps of a dict whose keys are written in the order given
Dumps(d, order) ==
  [i \in 1..(2 * Len(order)) |->
     IF i % 2 = 1 THEN order[(i + 1) \div 2] ELSE d[order[i \div 2]]]

JsonDumps(d) == Dumps(d, SortedKeys)

\* json.loads(body)[key], as a receiver reads it
BodyField(body, key) ==
  body[(CHOOSE i \in 1..Len(body) : i % 2 = 1 /\ body[i] = key) + 1]

\* a payload json.dumps raises TypeError for
Serializable(payload) == payload # "object"

\* hmac.new(key, message, sha256).hexdigest(): a digest is told by its key and
\* its message, two digests are equal only when both are
Hmac(key, message) == <<"hmac-sha256", key, message>>

\* a signature over the body alone
GenerateSignatureOfBody(timestamp, body, secret) == Hmac(secret, body)

\* _generate_signature: HMAC-SHA256 over f"{timestamp}.{body}"
GenerateSignature(timestamp, body, secret) == Hmac(secret, <<timestamp, ".">> \o body)

\* a request whose body is serialized again when it is sent (json= in place
\* of content=)
WebhookRequestReserialized(event_type, project_id, payload, url, secret, timestamp) ==
  LET webhook_payload == [event_type |-> event_type, project_id |-> project_id,
                          timestamp |-> timestamp, payload |-> payload]
      body_json == JsonDumps(webhook_payload)
      message   == <<timestamp, ".">> \o body_json
  IN [url |-> url, content |-> Dumps(webhook_payload, InsertionKeys),
      signature |-> Hmac(secret, message), timestamp |-> timestamp]

\* send_webhook, lines 92-130: the request it posts.  One timestamp goes into
\* the body, the signed message and the header; the string that is signed is
\* the string that is sent.
WebhookRequest(event_type, project_id, payload, url, secret, timestamp) ==
  LET webhook_payload == [event_type |-> event_type, project_id |-> project_id,
                          timestamp |-> timestamp, payload |-> payload]
      body_json == JsonDumps(webhook_payload)
      message   == <<timestamp, ".">> \o body_json
  IN [url |-> url, content |-> body_json,
      signature |-> Hmac(secret, message), timestamp |-> timestamp]

\* a configuration test that reads the URL alone
ConfiguredByUrl(url, secret) == url # None

\* send_webhook goes on only with a URL and a secret
Configured(url, secret) == url # None /\ secret # None

\* a client that posts again when the response is not 200
PostsRetrying(request, response) ==
  IF response = "200" THEN <<request>> ELSE <<request, request>>

\* the POST requests one call makes: client.post is called once, whatever the
\* response, and a RequestError it raises is caught
Posts(request, response) == <<request>>

send_webhook(event_type, project_id, payload, url, secret, response) ==
  LET request == WebhookRequest(event_type, project_id, payload, url, secret, Timestamp(now))
      posting == Configured(url, secret) /\ httpx /\ Serializable(payload)
  IN /\ apiCalls < MaxApiCalls
     /\ apiCalls' = apiCalls + 1
     /\ wire' = IF posting THEN wire \o Posts(request, response) ELSE wire
     /\ ret' = [Ret("send_webhook", event_type, None,
                    IF posting /\ response = "200" THEN "True" ELSE "False")
                  EXCEPT !.args = Some([url |-> url, secret |-> secret,
                                        payload |-> payload, response |-> response])]
     /\ UNCHANGED <<contextLake, httpx, saving, idColumn, agents, agentsTable, client, keyUnique, req,
                    nextId, initQueue, resultQueue, celery, posted, tasks, active,
                    sessions, webhookLog, now>>

\* --------------------------------------------------------- context engine
\* `not x` for the arguments of the ingestion task: a project_id is an
\* optional string, data is told by its type and its length
Falsy(project_id) == project_id = None \/ project_id = Some("")

Empty(data) == data.kind = "none" \/ data.len = 0

\* a save that takes any response without an error for a saved row
SaveContextOkUnlessError(response) == client = "up" /\ response # "error"

\* save_context_data returns True: there is a client, the insert does not
\* raise and its response holds a row.  An unreachable store raises.
SaveContextOk(response) == client = "up" /\ response = "row"

\* context_lake after save_context_data.  A response without rows is taken
\* as an insert the store did not make.
SaveContextLake(tbl, row, response) ==
  IF SaveContextOk(response) THEN Append(tbl, row) ELSE tbl

\* insert_data: project_id and raw_data, and the optional fields that are set
ContextRow(project_id, data, agent_name, data_type) ==
  Dict({"project_id", "raw_data"} \cup (IF agent_name # None THEN {"agent_name"} ELSE {})
                                  \cup (IF data_type # None THEN {"data_type"} ELSE {}),
       [project_id |-> project_id, raw_data |-> data, agent_name |-> agent_name,
        data_type |-> data_type])

save_context_data(project_id, data, agent_name, data_type, response) ==
  /\ apiCalls < MaxApiCalls
  /\ apiCalls' = apiCalls + 1
  /\ contextLake' = SaveContextLake(contextLake,
                                    ContextRow(project_id, data, agent_name, data_type),
                                    response)
  /\ ret' = [Ret("save_context_data", "", None,
                 IF SaveContextOk(response) THEN "True" ELSE "False")
               EXCEPT !.args = Some([project_id |-> project_id, data |-> data,
                                     response |-> response])]
  /\ UNCHANGED <<wire, httpx, saving, idColumn, agents, agentsTable, client, keyUnique, req,
                 nextId, initQueue, resultQueue, celery, posted, tasks, active, sessions,
                 webhookLog, now>>

\* a validation that leaves out the test for a dictionary
IngestValidAnyType(project_id, data) == ~Falsy(project_id) /\ ~Empty(data)

\* lines 68-75: project_id is set and not empty, data is not empty and a dict
IngestValid(project_id, data) ==
  ~Falsy(project_id) /\ ~Empty(data) /\ data.kind = "dict"

\* a task that returns its result whatever save_context_data returned
IngestOutcomeIgnoringSave(valid, saved) == IF ~valid THEN "ValueError" ELSE "dict"

\* how the task ends: ValueError for invalid arguments, Exception when
\* save_context_data returned False, otherwise the result dict
IngestOutcome(valid, saved) ==
  IF ~valid THEN "ValueError" ELSE IF saved THEN "dict" ELSE "Exception"

\* the states the task passes to update_state, in order
IngestStates(valid, saved) ==
  IF ~valid THEN <<"FAILURE">> ELSE IF saved THEN <<"STARTED">> ELSE <<"STARTED", "FAILURE">>

\* lines 107-114: the result dict
IngestResult(id, project_id, agent_name, data_type) ==
  [status |-> "completed", project_id |-> project_id, agent_name |-> agent_name,
   data_type |-> data_type, task_id |-> id]

\* ingest_context_data_task, run under the id the broker issued: what it
\* returned or raised, with the calls of save_context_data it made, the
\* states it set and its result
ingest_context_data_task(project_id, data, agent_name, data_type, response) ==
  LET id    == nextId
      valid == IngestValid(project_id, data)
      saved == valid /\ SaveContextOk(response)
      out   == IngestOutcome(valid, saved)
  IN /\ apiCalls < MaxApiCalls
     /\ apiCalls' = apiCalls + 1
     /\ nextId <= MaxIds
     /\ nextId' = nextId + 1
     /\ contextLake' =
          IF valid
            THEN SaveContextLake(contextLake,
                                 ContextRow(project_id, data, agent_name, data_type),
                                 response)
            ELSE contextLake
     /\ ret' = [Ret("ingest_context_data_task", "", None, out)
                  EXCEPT !.args =
                    Some([project_id |-> project_id, data |-> data, response |-> response,
                          task_id |-> id, agent_name |-> agent_name,
                          data_type |-> data_type,
                          saves |-> IF valid THEN 1 ELSE 0,
                          states |-> IngestStates(valid, saved),
                          result |-> IF out = "dict"
                                       THEN Some(IngestResult(id, project_id, agent_name,
                                                              data_type))
                                       ELSE None])]
     /\ UNCHANGED <<wire, httpx, saving, idColumn, agents, agentsTable, client, keyUnique,
                    req, initQueue, resultQueue, celery, posted, tasks, active,
                    sessions, webhookLog, now>>

\* ------------------------------------------------------------ environment
Tick ==
  /\ now < MaxClock
  /\ now' = now + 1
  /\ UNCHANGED <<contextLake, wire, httpx, saving, idColumn, ret,
                 agents, agentsTable, client, keyUnique, req, nextId, initQueue, resultQueue,
                 celery, posted, tasks, active, sessions, webhookLog, apiCalls>>

\* the store becomes unreachable, or reachable again
StoreFlip ==
  /\ client # "none"
  /\ client' = IF client = "up" THEN "down" ELSE "up"
  /\ UNCHANGED <<contextLake, wire, httpx, saving, idColumn, ret,
                 agents, agentsTable, keyUnique, req, nextId, initQueue, resultQueue,
                 celery, posted, tasks, active, sessions, webhookLog, now, apiCalls>>

\* ---------------------------------------------------------- specification
BuiltIn == [name |-> "qa", execution_type |-> "local", role |-> "r1", fly_machine_id |-> None]

\* the API process starts again: _session_manager and _registry are built
\* anew, the store keeps its rows
Restart ==
  /\ active' = [k \in Keys |-> None]
  /\ agents' = [n \in Names |-> IF n = "qa" THEN Some(BuiltIn) ELSE None]
  /\ UNCHANGED <<contextLake, wire, httpx, saving, idColumn, ret, agentsTable, client, keyUnique, req,
                 nextId, initQueue, resultQueue, celery, posted, tasks, sessions,
                 webhookLog, now, apiCalls>>

Init ==
  /\ agents = [n \in Names |-> IF n = "qa" THEN Some(BuiltIn) ELSE None]
  /\ client \in {"none", "up"}
  /\ agentsTable = [n \in Names |->
                      IF n = "qa" /\ client = "up" THEN <<[role |-> Some("r1")]>> ELSE <<>>]
  /\ keyUnique \in BOOLEAN
  /\ req = [r \in Reqs |-> [pc |-> "idle", project |-> "", agent |-> "", task_id |-> 0,
                            exec |-> ""]]
  /\ nextId = 1
  /\ initQueue = {}
  /\ resultQueue = {}
  /\ celery = [i \in Ids |-> [type |-> "none", process |-> "none", state |-> "PENDING"]]
  /\ posted = [i \in Ids |-> 0]
  /\ tasks = [i \in Ids |-> <<>>]
  /\ active = [k \in Keys |-> None]
  /\ sessions = [k \in Keys |-> <<>>]
  /\ webhookLog = {}
  /\ now = 0
  /\ apiCalls = 0
  /\ saving = {}
  /\ idColumn = TRUE
  /\ ret = [Ret("none", "", None, "none") EXCEPT !.call = 0]
  /\ wire = <<>>
  /\ httpx = TRUE
  /\ contextLake = <<>>

Maybe(S) == {None} \cup {Some(v) : v \in S}

\* what the other callers pass: a result with completed, an error with failed
ResultOf(status) == IF status = "completed" THEN Some("result") ELSE None
ErrorOf(status) == IF status = "failed" THEN Some("error") ELSE None
CallerKeys == Projects \X RequestNames \X Ids
CallerStatuses == {"pending", "processing", "completed", "failed"}

Handler(R) ==
  \/ \E r \in R, p \in Projects, a \in RequestNames : process_agent_validate(r, p, a)
  \/ \E r \in R : process_agent_delay(r)
  \/ \E r \in R : process_agent_route(r)
  \/ \E r \in R : process_agent_update(r)
  \/ \E r \in R : process_agent_save(r)

Environment ==
  \/ \E d \in Registrations : register_agent(d)
  \/ StoreFlip

\* the HTTP handler, serving concurrent requests, and the worker of
\* agent_initialization_queue
PipelineNext ==
  \/ Handler(Reqs)
  \/ \E m \in initQueue, o \in Outcomes, d \in Delays : agent_initialization_task(m, o, d)
  \/ Environment

\* one request at a time, both workers, and the other callers of the session
\* manager, the task store, the result queue and the webhook client
Next ==
  \/ Handler({1})
  \/ \E m \in initQueue, o \in Outcomes, d \in Delays : agent_initialization_task(m, o, d)
  \/ Environment
  \/ \E m \in resultQueue : process_agent_result_task(m)
  \/ \E p \in Projects, a \in RequestNames, t \in Ids, s \in Terminal :
       publish_result(p, a, t, s)
  \/ \E k \in CallerKeys : route_agent_task(k[1], k[2], k[3])
  \/ \E k \in CallerKeys, s \in {"processing", "completed", "failed"} :
       update_session_status(k, s, None)
  \/ \E i \in Ids, s \in CallerStatuses : save_task(i, s, ResultOf(s), ErrorOf(s))
  \/ \E i \in Ids, c \in BOOLEAN, resp \in {"200", "500"} :
       send_task_created_webhook(i, "completed", c, resp)

\* the task store under its callers, with time passing between the calls
StoreNext ==
  \/ \E i \in Ids, s \in CallerStatuses : save_task(i, s, ResultOf(s), ErrorOf(s))
  \/ \E i \in Ids, s \in CallerStatuses, m \in Maybe({"meta"}) :
       update_task_status(i, s, ResultOf(s), ErrorOf(s), m)
  \/ Tick
  \/ StoreFlip

\* the session manager under the handler and its other callers, with time
\* passing between the calls
SessionNext ==
  \/ Handler({1})
  \/ Environment
  \/ \E k \in CallerKeys : route_agent_task(k[1], k[2], k[3])
  \/ \E k \in CallerKeys, s \in {"processing", "completed", "failed"} :
       update_session_status(k, s, None)
  \/ Tick

\* save_task calls whose store calls interleave
RaceNext ==
  \/ \E i \in Ids, s \in CallerStatuses : save_task_select(i, s, ResultOf(s), ErrorOf(s))
  \/ \E c \in saving : save_task_write(c)
  \/ StoreFlip

\* the definitions the registry is called with: the registrations above, a
\* changed definition of the built-in agent, two names that differ by case and
\* end in a space, the empty name
RegistryDefs ==
  Registrations \cup
    {[name |-> "qa", execution_type |-> "local", role |-> "r2", fly_machine_id |-> None],
     [name |-> "fly ", execution_type |-> "local", role |-> "r1", fly_machine_id |-> None],
     [name |-> "FLY ", execution_type |-> "local", role |-> "r1", fly_machine_id |-> None],
     [name |-> "", execution_type |-> "local", role |-> "r1", fly_machine_id |-> None]}

RegistryNames == {"qa", "fly"}

\* what the agents table may hold for the built-in agent when the registry
\* starts: nothing, its row, a row of an older definition, two such rows
StoredRows ==
  {<<>>, <<[role |-> Some("r1")]>>, <<[role |-> Some("r2")]>>,
   <<[role |-> Some("r2")], [role |-> Some("r2")]>>}

RegistryInit ==
  /\ agents = [n \in Names |-> IF n = "qa" THEN Some(BuiltIn) ELSE None]
  /\ client \in {"none", "up"}
  /\ \E rows \in StoredRows :
       agentsTable = [n \in Names |-> IF n = "qa" THEN rows ELSE <<>>]
  /\ idColumn \in BOOLEAN
  /\ keyUnique = TRUE
  /\ req = [r \in Reqs |-> [pc |-> "idle", project |-> "", agent |-> "", task_id |-> 0,
                            exec |-> ""]]
  /\ nextId = 1
  /\ initQueue = {}
  /\ resultQueue = {}
  /\ celery = [i \in Ids |-> [type |-> "none", process |-> "none", state |-> "PENDING"]]
  /\ posted = [i \in Ids |-> 0]
  /\ tasks = [i \in Ids |-> <<>>]
  /\ active = [k \in Keys |-> None]
  /\ sessions = [k \in Keys |-> <<>>]
  /\ webhookLog = {}
  /\ now = 0
  /\ apiCalls = 0
  /\ saving = {}
  /\ ret = [Ret("none", "", None, "none") EXCEPT !.call = 0]
  /\ wire = <<>>
  /\ httpx = TRUE
  /\ contextLake = <<>>

\* the registry under its callers
RegistryNext ==
  \/ \E d \in RegistryDefs : register_agent(d)
  \/ \E n \in RegistryNames : delete_agent(n)
  \/ \E n \in RegistryNames, d \in {e \in RegistryDefs : e.name \in RegistryNames \cup {"QA"}} :
       update_agent(n, d)
  \/ \E F \in SUBSET RegistryNames, j \in 1..2 : sync_all_to_supabase(F, j)
  \/ StoreFlip

\* the remote definitions routed: one without a compute handle, one with
RouteDefs ==
  {[name |-> "fly", execution_type |-> "remote", role |-> "r1", fly_machine_id |-> None],
   [name |-> "fly", execution_type |-> "remote", role |-> "r1",
    fly_machine_id |-> Some("m1")]}

\* the session manager under its direct callers, across restarts of the process
RouteNext ==
  \/ \E d \in RouteDefs : register_agent(d)
  \/ \E k \in CallerKeys : route_agent_task(k[1], k[2], k[3])
  \/ \E k \in CallerKeys, s \in {"processing", "completed", "failed"} :
       update_session_status(k, s, None)
  \/ StoreFlip
  \/ Restart

\* what send_webhook is called with, and the responses of the receiver: 200,
\* another status, a connection that fails
Payloads == {"pl1", "pl2", "object"}
Urls == Maybe({"u1"})
Secrets == Maybe({"s1"})
Responses == {"200", "500", "RequestError"}

WebhookInit ==
  /\ httpx \in BOOLEAN
  /\ agents = [n \in Names |-> IF n = "qa" THEN Some(BuiltIn) ELSE None]
  /\ client = "none"
  /\ agentsTable = [n \in Names |-> <<>>]
  /\ keyUnique = TRUE
  /\ idColumn = TRUE
  /\ req = [r \in Reqs |-> [pc |-> "idle", project |-> "", agent |-> "", task_id |-> 0,
                            exec |-> ""]]
  /\ nextId = 1
  /\ initQueue = {}
  /\ resultQueue = {}
  /\ celery = [i \in Ids |-> [type |-> "none", process |-> "none", state |-> "PENDING"]]
  /\ posted = [i \in Ids |-> 0]
  /\ tasks = [i \in Ids |-> <<>>]
  /\ active = [k \in Keys |-> None]
  /\ sessions = [k \in Keys |-> <<>>]
  /\ webhookLog = {}
  /\ now = 0
  /\ apiCalls = 0
  /\ saving = {}
  /\ ret = [Ret("none", "", None, "none") EXCEPT !.call = 0]
  /\ wire = <<>>
  /\ contextLake = <<>>

\* the webhook client under its callers, with time passing between the calls
WebhookNext ==
  \/ \E p \in Projects, pl \in Payloads, u \in Urls, s \in Secrets, r \in Responses :
       send_webhook("task.created", p, pl, u, s, r)
  \/ Tick

\* what the context engine is called with: a project_id that is missing, empty
\* or set; data that is missing, an empty or a filled dict, an empty or a
\* filled list; and what the insert answers: a row, no row, an error
ProjectIds == {None, Some(""), Some("p1")}
Datas ==
  {[kind |-> "none", len |-> 0], [kind |-> "dict", len |-> 0], [kind |-> "dict", len |-> 1],
   [kind |-> "list", len |-> 0], [kind |-> "list", len |-> 1]}
InsertResponses == {"row", "empty", "error"}

\* the context engine under its callers
ContextNext ==
  \/ \E r \in InsertResponses :
       save_context_data(Some("p1"), [kind |-> "dict", len |-> 1], None, None, r)
  \/ \E p \in ProjectIds, d \in Datas, a \in Maybe({"qa"}), r \in InsertResponses :
       ingest_context_data_task(p, d, a, Some("log"), r)
  \/ StoreFlip

\* the worker of agent_results_queue, with the producers of its messages and
\* the callers that keep the records of the tasks the messages tell of
ResultNext ==
  \/ \E i \in Ids, s \in CallerStatuses : save_task(i, s, ResultOf(s), ErrorOf(s))
  \/ \E p \in Projects, a \in RequestNames, t \in Ids, s \in Terminal :
       publish_result(p, a, t, s)
  \/ \E m \in resultQueue : process_agent_result_task(m)
  \/ StoreFlip

Spec == Init /\ [][Next]_vars

ResultSpec == Init /\ [][ResultNext]_vars

ContextSpec == Init /\ [][ContextNext]_vars

WebhookSpec == WebhookInit /\ [][WebhookNext]_vars

RouteSpec == Init /\ [][RouteNext]_vars

SessionSpec == Init /\ [][SessionNext]_vars

RaceSpec == Init /\ [][RaceNext]_vars

RegistrySpec == RegistryInit /\ [][RegistryNext]_vars

PipelineSpec == Init /\ [][PipelineNext]_vars

StoreSpec == Init /\ [][StoreNext]_vars

\* ------------------------------------------------------------------ claims
Rows(tbl, k) == 1..Len(tbl[k])

SessionKey(r) == <<req[r].project, req[r].agent, req[r].task_id>>

Answered(r) == req[r].pc \in {"http200", "http500"}

Finished(id) == celery[id].type = "init" /\ celery[id].state \in {"SUCCESS", "FAILURE"}

\* C1: a row of the tasks table that holds a terminal status (completed or
\* failed) is never set back to pending or processing by a later write.
C1_StatusMonotonic ==
  [][\A i \in Ids : \A j \in Rows(tasks, i) :
       tasks[i][j].status \in Terminal =>
         /\ j <= Len(tasks'[i])
         /\ tasks'[i][j].status \notin {"pending", "processing"}]_vars

\* C2: the statuses of a locally routed request are persisted in the order
\* pending, processing, terminal: the handler's pending write and the task's
\* writes are applied when the store is up, and no row moves back from
\* processing to pending or from a terminal status to an earlier one.
Rank(status) ==
  IF status = "pending" THEN 0 ELSE IF status = "processing" THEN 1 ELSE 2

C2_StatusOrder ==
  [][/\ \A r \in Reqs :
          (req[r].pc = "save" /\ req[r].exec = "local" /\ Answered(r)' /\ client = "up")
            => Len(tasks'[req[r].task_id]) > 0
     /\ \A m \in initQueue :
          (m \notin initQueue' /\ client = "up")
            => /\ Len(tasks'[m.id]) > 0
               /\ tasks'[m.id][1].status \in Terminal
     /\ \A i \in Ids : \A j \in Rows(tasks, i) :
          j <= Len(tasks'[i]) => Rank(tasks'[i][j].status) >= Rank(tasks[i][j].status)]_vars

\* C3: an initialization task is in the queue, or has been executed, only when
\* the session of its request has been registered.
C3_RoutedBeforeDispatch ==
  /\ \A m \in initQueue : active[<<m.project_id, m.agent_name, m.id>>] # None
  /\ \A r \in Reqs :
       (req[r].exec = "local" /\ req[r].task_id \in Ids /\ Finished(req[r].task_id))
         => active[SessionKey(r)] # None

\* C4: an initialization task whose agent's process() raises has enqueued
\* exactly one result task, with status failed, and the rows of its record
\* hold status failed and the error message.
C4_FailureNotified ==
  \A i \in Ids :
    (Finished(i) /\ celery[i].process = "raises")
      => /\ posted[i] = 1
         /\ \E m \in resultQueue : m.task_id = i /\ m.status = "failed"
         /\ \A j \in Rows(tasks, i) :
              tasks[i][j].status = "failed" /\ tasks[i][j].error # None

\* C5: an initialization task whose agent's process() returns has enqueued
\* exactly one result task, which carries the request's project, agent and
\* task identifier, and the rows of its record hold status completed and the
\* result.
C5_SuccessForwarded ==
  \A r \in Reqs :
    (req[r].exec = "local" /\ req[r].task_id \in Ids /\ Finished(req[r].task_id)
       /\ celery[req[r].task_id].process = "returns")
      => /\ posted[req[r].task_id] = 1
         /\ \E m \in resultQueue :
              /\ m.task_id = req[r].task_id
              /\ m.project_id = req[r].project
              /\ m.agent_name = req[r].agent
              /\ m.status = "completed"
         /\ \A j \in Rows(tasks, req[r].task_id) :
              /\ tasks[req[r].task_id][j].status = "completed"
              /\ tasks[req[r].task_id][j].result # None

\* C6: every result-processing task that has been executed, whether it
\* succeeded or failed, has called the webhook client for its own record.
C6_WebhookAttempted ==
  \A i \in Ids :
    (celery[i].type = "result" /\ celery[i].state \in {"SUCCESS", "FAILURE"})
      => \E w \in webhookLog : w.task_id = i

\* C7: once a request has been answered and its initialization task has ended
\* and no result task of it is queued, nothing is left to run for it, and its
\* session holds the terminal status of the task.
C7_SessionTerminated ==
  \A r \in Reqs :
    (/\ req[r].exec = "local"
     /\ Answered(r)
     /\ Finished(req[r].task_id)
     /\ \A m \in resultQueue : m.task_id # req[r].task_id
     /\ active[SessionKey(r)] # None)
      => active[SessionKey(r)][1].status \in Terminal

\* C8: no step removes a row from agent_sessions or from tasks: every row
\* present before a step is present after it.
C8_NoDelete ==
  [][/\ \A k \in Keys : Len(sessions'[k]) >= Len(sessions[k])
     /\ \A i \in Ids : Len(tasks'[i]) >= Len(tasks[i])]_vars

\* a session row that updateStatus has changed, and a task row, are held
C8_Witness ==
  /\ \E k \in Keys : Len(sessions[k]) > 0 /\ sessions[k][1].status \in Terminal
  /\ \E i \in Ids : Len(tasks[i]) > 0 /\ tasks[i][1].status \in Terminal

\* C9: the store holds at most one session row for each session key.
C9_OneRowPerKey == \A k \in Keys : Len(sessions[k]) <= 1

\* C10: started_at and completed_at of a task row, once set, are not changed
\* by a later save_task or update_task_status call.
C10_StampedOnce ==
  [][\A i \in Ids : \A j \in Rows(tasks, i) :
       j <= Len(tasks'[i]) =>
         /\ tasks[i][j].started_at # None => tasks'[i][j].started_at = tasks[i][j].started_at
         /\ tasks[i][j].completed_at # None
              => tasks'[i][j].completed_at = tasks[i][j].completed_at]_vars

\* C11: completed_at of a session row, once stamped, is not changed by a later
\* update_session_status call for the same session key.
C11_CompletedAtOnce ==
  [][\A k \in Keys : \A j \in Rows(sessions, k) :
       (j <= Len(sessions'[k]) /\ sessions[k][j].completed_at # None)
         => sessions'[k][j].completed_at = sessions[k][j].completed_at]_vars

\* C12: whatever the order in which the store calls of concurrent save_task
\* calls run, the tasks table holds at most one row for a task_id.
C12_OneRowPerTask == \A i \in Ids : Len(tasks[i]) <= 1

\* C13: a request that names a registered agent is never answered with a
\* server error: it gets its response with the task identifier.
C13_AlwaysAnswered == \A r \in Reqs : req[r].pc # "http500"

\* a call made by one of the other callers has just returned or raised
Called(op) == apiCalls' # apiCalls /\ ret'.call = apiCalls' /\ ret'.op = op

\* C14: a route call or a request for a name the registry does not hold is
\* rejected (ValueError, 404) and changes nothing: no session of that name is
\* created in memory or in the store, no task is enqueued, no task row written.
C14_UnknownRejected ==
  [][/\ \A k \in Keys :
          agents[k[2]] = None => active'[k] = active[k] /\ sessions'[k] = sessions[k]
     /\ \A r \in Reqs :
          (req[r].pc = "idle" /\ req'[r].pc # "idle" /\ agents[req'[r].agent] = None)
            => /\ req'[r].pc = "http404"
               /\ UNCHANGED <<initQueue, tasks, active, sessions, nextId>>
     /\ \A r \in Reqs : req[r].pc = "http404" => req'[r] = req[r]
     /\ (Called("route_agent_task") /\ agents[ret'.name] = None)
          => /\ ret'.out = "ValueError"
             /\ UNCHANGED <<initQueue, tasks, active, sessions>>
     /\ \A m \in initQueue' \ initQueue : agents[m.agent_name] # None]_vars

\* a request and a route call for the unregistered name have been rejected
C14_Witness ==
  /\ agents["fly"] = None
  /\ \E r \in Reqs : req[r].pc = "http404" /\ req[r].agent = "fly"
  /\ ret.op = "route_agent_task" /\ ret.name = "fly" /\ ret.out = "ValueError"

\* C15: a register call whose name differs only by case from a name already
\* registered raises, and leaves the registry and the agents table as they were.
C15_CaseConflict ==
  [][(/\ Called("register_agent")
      /\ \E n \in Names :
           agents[n] # None /\ n # ret'.name /\ Lower(n) = Lower(ret'.name))
       => /\ ret'.out = "ValueError"
          /\ UNCHANGED <<agents, agentsTable>>]_vars

\* C16: a register call with an empty or whitespace-only name raises, and the
\* registry and the agents table are as they were.
C16_BlankRejected ==
  [][(Called("register_agent") /\ Strip(ret'.name) = "")
       => /\ ret'.out = "ValueError"
          /\ UNCHANGED <<agents, agentsTable>>]_vars

\* a register call with the blank name has raised, and nothing holds the name
C16_Witness ==
  /\ ret.op = "register_agent" /\ ret.name = " " /\ ret.out = "ValueError"
  /\ agents[" "] = None /\ agentsTable[" "] = <<>>

\* C17: register, update and delete make their change in memory and return
\* True whatever the state of the store: unconfigured, unreachable or up.
C17_MemoryRegardlessOfStore ==
  [][/\ (Called("register_agent") /\ ~RegisterRaises(ret'.agent[1]))
          => ret'.out = "True" /\ agents'[ret'.name] = ret'.agent
     /\ (Called("delete_agent") /\ agents[ret'.name] # None)
          => ret'.out = "True" /\ agents'[ret'.name] = None
     /\ (Called("update_agent") /\ agents[ret'.name] # None)
          => /\ ret'.out = "True"
             /\ agents'[ret'.agent[1].name] = ret'.agent
             /\ ret'.agent[1].name # ret'.name => agents'[ret'.name] = None
     /\ (Called("delete_agent") \/ Called("update_agent"))
          => ret'.out \in {"True", "False"}]_vars

\* the agent was deleted while the store could not be reached: its row is held
C17_Witness ==
  /\ client = "down"
  /\ ret.op = "delete_agent" /\ ret.name = "qa" /\ ret.out = "True"
  /\ agents["qa"] = None
  /\ Len(agentsTable["qa"]) > 0

\* C18: a sync_all call that directly follows a sync_all call in which every
\* agent was synced issues no store write.
C18_IdempotentSync ==
  [][(/\ Called("sync_all_to_supabase")
      /\ ret.op = "sync_all_to_supabase"
      /\ ret.failed = 0)
       => ret'.writes = 0]_vars

\* C19: sync_all returns its summary and does not raise; synced + failed is the
\* number of registered agents, there is one error string for each failed
\* agent, and every agent whose store call did not fail has its row.
C19_SyncAllSummary ==
  [][Called("sync_all_to_supabase")
       => /\ ret'.out = "dict"
          /\ ret'.synced + ret'.failed = Cardinality(Registered)
          /\ Cardinality(ret'.errors) = ret'.failed
          /\ client = "up"
               => \A n \in Registered \ ret'.errors : Len(agentsTable'[n]) > 0]_vars

\* the store holds a row with the definition's fields under its name
Stored(tbl, d) == \E j \in Rows(tbl, d.name) : tbl[d.name][j].role = Some(d.role)

LocalSession(worker) ==
  [status |-> "routed", execution_type |-> "local", worker_id |-> Some(worker),
   fly_machine_id |-> None]

C22_RemoteHandle ==
  [][\A k \in CallerKeys :
       (route_agent_task(k[1], k[2], k[3]) /\ ~RouteRaises(k[2])
          /\ ExecutionType(k[2]) = "remote")
         => LET handle == agents[k[2]][1].fly_machine_id
            IN active'[k][1].worker_id =
                 IF handle # None THEN handle ELSE <<"fly_machine", k[2], k[1]>>]_vars

\* C23: whenever route_agent_task returns a routing result, a new row of the
\* session key with status routed has been inserted into the store.
C23_RowPersisted ==
  [][\A k \in CallerKeys :
       (route_agent_task(k[1], k[2], k[3]) /\ ret'.out = "dict")
         => /\ Len(sessions'[k]) = Len(sessions[k]) + 1
            /\ sessions'[k][Len(sessions'[k])].status = "routed"]_vars

\* C23, amended: whenever route_agent_task returns a routing result, the
\* session of the key is held in memory with status routed; a new row with
\* status routed has been inserted when the store is reachable and takes the
\* insert, and the store is as it was when it is not.
C23_SessionRecorded ==
  [][\A k \in CallerKeys :
       (route_agent_task(k[1], k[2], k[3]) /\ ret'.out = "dict")
         => /\ active'[k] # None
            /\ active'[k][1].status = "routed"
            /\ IF client = "up" /\ ~(keyUnique /\ Len(sessions[k]) > 0)
                 THEN /\ Len(sessions'[k]) = Len(sessions[k]) + 1
                      /\ sessions'[k][Len(sessions'[k])].status = "routed"
                      /\ \A i \in Rows(sessions, k) : sessions'[k][i] = sessions[k][i]
                 ELSE sessions' = sessions]_vars

C23_Witness ==
  /\ ret.op = "route_agent_task" /\ ret.out = "dict" /\ ret.call = apiCalls
  /\ \E k \in CallerKeys :
       /\ k[2] = ret.name
       /\ active[k] # None
       /\ active[k][1].status = "routed"
       /\ Len(sessions[k]) = 2
       /\ sessions[k][1].status = "routed"
       /\ sessions[k][2].status = "routed"

\* C24: send_webhook called without a URL or without a secret returns False,
\* posts nothing and raises nothing.
C24_UnconfiguredSkips ==
  [][(Called("send_webhook")
        /\ (ret'.args[1].url = None \/ ret'.args[1].secret = None))
       => ret'.out = "False" /\ wire' = wire]_vars

C24_Witness ==
  /\ ret.op = "send_webhook" /\ ret.call = apiCalls
  /\ ret.args[1].url # None /\ ret.args[1].secret = None
  /\ ret.args[1].response = "200" /\ Serializable(ret.args[1].payload)
  /\ httpx
  /\ ret.out = "False"
  /\ wire = <<>>

\* C25: the signature of a request is computed over the body that is sent, and
\* one timestamp is in the header, in the body and in the signed message.
C25_SignedBodyIsSentBody ==
  [][Called("send_webhook")
       => \A i \in (Len(wire) + 1)..Len(wire') :
            LET request == wire'[i]
            IN /\ request.signature =
                    Hmac(ret'.args[1].secret, <<request.timestamp, ".">> \o request.content)
               /\ BodyField(request.content, "timestamp") = request.timestamp]_vars

C25_Witness ==
  /\ Len(wire) = 2
  /\ wire[1].timestamp = "t0"
  /\ wire[2].timestamp = "t1"
  /\ BodyField(wire[2].content, "timestamp") = "t1"
  /\ wire[2].signature[3][1] = "t1"

\* the bodies a receiver may be handed with the header of a request: what
\* send_webhook serializes for any payload at any time, in either key order
Bodies ==
  UNION {{Dumps(d, SortedKeys), Dumps(d, InsertionKeys)} :
           d \in [event_type : {"task.created"}, project_id : Projects,
                  timestamp : {Timestamp(t) : t \in 0..MaxClock},
                  payload : {pl \in Payloads : Serializable(pl)}]}

\* C26: a receiver that computes HMAC-SHA256 with the shared secret over
\* "timestamp.body", from the header timestamp and the body it received, gets
\* the signature of the header; with any other body it gets another one.
C26_ReceiverVerifies ==
  [][Called("send_webhook")
       => \A i \in (Len(wire) + 1)..Len(wire') :
            LET request == wire'[i]
                secret  == ret'.args[1].secret
            IN /\ GenerateSignature(request.timestamp, request.content, secret)
                    = request.signature
               /\ \A b \in Bodies \ {request.content} :
                    GenerateSignature(request.timestamp, b, secret)
                      # request.signature]_vars

C26_Witness ==
  /\ ret.op = "send_webhook" /\ ret.call = apiCalls /\ ret.out = "True"
  /\ wire # <<>>
  /\ LET request == wire[Len(wire)]
     IN /\ GenerateSignature(request.timestamp, request.content, ret.args[1].secret)
             = request.signature
        /\ \E b \in Bodies : b # request.content

\* C27: a call of send_webhook with a URL and a secret makes exactly one POST
\* and returns True exactly when the response status is 200; another status
\* or a network error gives False and nothing is raised.
C27_OnePost ==
  [][(Called("send_webhook")
        /\ ret'.args[1].url # None /\ ret'.args[1].secret # None)
       => /\ Len(wire') = Len(wire) + 1
          /\ ret'.out \in {"True", "False"}
          /\ ret'.out = "True" <=> ret'.args[1].response = "200"]_vars

\* C27, amended: a call of send_webhook with a URL and a secret makes one POST
\* when httpx is importable and the payload serializes, and none otherwise;
\* it never makes a second one.  It returns True exactly when it made the POST
\* and the response status is 200, False otherwise, and raises nothing.
C27_AtMostOnePost ==
  [][(Called("send_webhook")
        /\ ret'.args[1].url # None /\ ret'.args[1].secret # None)
       => LET sent == httpx /\ ret'.args[1].payload # "object"
          IN /\ Len(wire') = Len(wire) + (IF sent THEN 1 ELSE 0)
             /\ ret'.out \in {"True", "False"}
             /\ ret'.out = "True" <=> (sent /\ ret'.args[1].response = "200")]_vars

C27_Witness ==
  /\ ret.op = "send_webhook" /\ ret.call = apiCalls /\ apiCalls = 1
  /\ ret.args[1].url # None /\ ret.args[1].secret # None
  /\ ret.args[1].response = "RequestError"
  /\ Len(wire) = 1
  /\ ret.out = "False"

\* C28: a session comes into being through route_agent_task alone, with
\* status routed: an entry that appears in memory and a row that appears in
\* the store hold routed, and update_session_status makes neither, so a key
\* that was never routed has no session after it.
C28_RoutedFirst ==
  [][\A k \in Keys :
       /\ (active[k] = None /\ active'[k] # None) => active'[k][1].status = "routed"
       /\ Len(sessions'[k]) > Len(sessions[k])
            => sessions'[k][Len(sessions'[k])].status = "routed"
       /\ \A s \in {"processing", "completed", "failed"} :
            update_session_status(k, s, None)
              => /\ active[k] = None => active'[k] = None
                 /\ Len(sessions'[k]) = Len(sessions[k])]_vars

C28_Witness ==
  /\ apiCalls = 2 /\ ret.op = "route_agent_task" /\ ret.call = 1
  /\ \E k \in CallerKeys :
       /\ active[k] # None
       /\ active[k][1].status \in Terminal
       /\ Len(sessions[k]) = 1
       /\ sessions[k][1].status \in Terminal
       /\ \A o \in Keys \ {k} : active[o] = None /\ sessions[o] = <<>>

\* C29: a store that is not configured or not reachable never makes
\* route_agent_task or update_session_status raise: route_agent_task returns
\* its routing result with the session routed in memory, and
\* update_session_status changes the status of a session held in memory.
C29_StoreErrorsContained ==
  [][\A k \in CallerKeys :
       /\ (route_agent_task(k[1], k[2], k[3]) /\ ~RouteRaises(k[2]))
            => /\ ret'.out = "dict"
               /\ active'[k] # None
               /\ active'[k][1].status = "routed"
       /\ \A s \in {"processing", "completed", "failed"} :
            (update_session_status(k, s, None) /\ active[k] # None)
              => /\ active'[k] # None
                 /\ active'[k][1].status = s]_vars

C29_Witness ==
  /\ client # "up"
  /\ ret.op = "route_agent_task" /\ ret.out = "dict" /\ ret.call = 1
  /\ apiCalls = 2
  /\ \E k \in CallerKeys :
       /\ active[k] # None
       /\ active[k][1].status \in Terminal
       /\ sessions[k] = <<>>

\* C30: a session that is held in memory, or in a reachable store, or in
\* both, is returned by get_session and is listed by
\* get_active_sessions_for_project and get_active_sessions_for_agent.
C30_ReadThrough ==
  \A k \in Keys :
    (active[k] # None \/ (client = "up" /\ Len(sessions[k]) > 0))
      => /\ \A j \in FirstRows(sessions, k) : GetSession(k, j) # None
         /\ k \in SessionsForProject(k[1])
         /\ k \in SessionsForAgent(k[2])

\* C31: save_context_data returns True only when there is a client and the
\* insert returns a row; without a client, with a response that holds no row
\* or with an insert that raises it returns False, and it never raises.
C31_SavedOnlyWithRow ==
  [][Called("save_context_data")
       => /\ ret'.out \in {"True", "False"}
          /\ ret'.out = "True" <=> (client = "up" /\ ret'.args[1].response = "row")
          /\ ret'.out = "False" => contextLake' = contextLake]_vars

C31_Witness ==
  /\ ret.op = "save_context_data" /\ ret.call = apiCalls /\ apiCalls = 1
  /\ client = "up"
  /\ ret.args[1].response = "empty"
  /\ ret.out = "False"
  /\ contextLake = <<>>

\* C32: ingest_context_data_task called with a project_id that is missing or
\* empty, with data that is missing or empty, or with data that is no dict
\* sets the task state to FAILURE and raises ValueError; it never calls
\* save_context_data and nothing is written to the store.
C32_InvalidNeverSaved ==
  [][(Called("ingest_context_data_task")
        /\ \/ ret'.args[1].project_id \in {None, Some("")}
           \/ ret'.args[1].data.len = 0
           \/ ret'.args[1].data.kind # "dict")
       => /\ ret'.out = "ValueError"
          /\ ret'.args[1].saves = 0
          /\ ret'.args[1].states = <<"FAILURE">>
          /\ contextLake' = contextLake]_vars

C32_Witness ==
  /\ ret.op = "ingest_context_data_task" /\ ret.call = apiCalls /\ apiCalls = 1
  /\ ret.args[1].project_id = Some("p1")
  /\ ret.args[1].data = [kind |-> "list", len |-> 1]
  /\ ret.args[1].response = "row"
  /\ client = "up"
  /\ ret.out = "ValueError"
  /\ ret.args[1].saves = 0
  /\ contextLake = <<>>

\* C33: ingest_context_data_task returns a result exactly when its arguments
\* are valid and save_context_data returned True; the result has status
\* completed and the project_id, agent_name, data_type and task id of the
\* call.  With valid arguments and a save that returned False it raises.
C33_CompletedIffSaved ==
  [][Called("ingest_context_data_task")
       => LET a     == ret'.args[1]
              valid == /\ a.project_id \notin {None, Some("")}
                       /\ a.data.kind = "dict"
                       /\ a.data.len > 0
              saved == client = "up" /\ a.response = "row"
          IN /\ ret'.out = "dict" <=> (valid /\ saved)
             /\ ret'.out = "dict"
                  => a.result = Some([status |-> "completed", project_id |-> a.project_id,
                                      agent_name |-> a.agent_name,
                                      data_type |-> a.data_type, task_id |-> a.task_id])
             /\ (valid /\ ~saved) => (ret'.out = "Exception" /\ a.result = None)]_vars

C33_Witness ==
  /\ ret.op = "ingest_context_data_task" /\ ret.call = apiCalls /\ apiCalls = 2
  /\ ret.out = "dict"
  /\ ret.args[1].result # None
  /\ ret.args[1].result[1].task_id = 2
  /\ ret.args[1].result[1].agent_name = Some("qa")
  /\ Len(contextLake) = 1

\* C35: when process() returns and process_agent_result_task.delay raises,
\* agent_initialization_task still ends with its result, and the record of
\* the task in a reachable store is completed.
C35_EnqueueFailureTolerated ==
  [][\A m \in initQueue :
       agent_initialization_task(m, "returns", "raises")
         => /\ celery'[m.id].state = "SUCCESS"
            /\ client = "up"
                 => /\ Len(tasks'[m.id]) > 0
                    /\ \A i \in Rows(tasks', m.id) : tasks'[m.id][i].status = "completed"]_vars

\* C36: when process() raises, agent_initialization_task ends by raising, and
\* by then the failed record has been written to a reachable store and the
\* failure result has been handed to a broker that takes it.
C36_FailureReRaised ==
  [][\A m \in initQueue :
       agent_initialization_task(m, "raises", "ok")
         => /\ celery'[m.id].state = "FAILURE"
            /\ posted'[m.id] = posted[m.id] + 1
            /\ \E msg \in resultQueue' \ resultQueue :
                 msg.task_id = m.id /\ msg.status = "failed"
            /\ client = "up"
                 => /\ Len(tasks'[m.id]) > 0
                    /\ \A i \in Rows(tasks', m.id) : tasks'[m.id][i].status = "failed"]_vars

\* C37: an execution of process_agent_result_task with a reachable store
\* leaves a record keyed by its own task id that was saved as processing
\* before it was saved with a terminal status, and that carries the id of
\* the originating task as parent_task_id.
C37_OwnRecordLinked ==
  [][\A m \in resultQueue :
       (process_agent_result_task(m) /\ client = "up")
         => /\ Len(tasks'[m.id]) > 0
            /\ LET row == tasks'[m.id][Len(tasks'[m.id])]
               IN /\ row.status \in Terminal
                  /\ row.started_at # None
                  /\ "parent_task_id" \in DOMAIN row
                  /\ row.parent_task_id = Some(m.task_id)]_vars

\* C38: an execution of process_agent_result_task leaves the rows keyed by
\* the originating task id as they were.
C38_ParentRecordUntouched ==
  [][\A m \in resultQueue :
       process_agent_result_task(m) => tasks'[m.task_id] = tasks[m.task_id]]_vars

C38_Witness ==
  /\ resultQueue = {}
  /\ nextId = 2
  /\ celery[1].type = "result"
  /\ celery[1].state \in {"SUCCESS", "FAILURE"}
  /\ client = "up"
  /\ \E t \in Ids \ {1} :
       /\ Len(tasks[t]) = 1
       /\ tasks[t][1].status = "completed"
       /\ tasks[t][1].result = Some("result")

\* C39: no two names the registry holds are equal when case is ignored.
C39_NamesDifferBeyondCase ==
  \A n \in Registered, m \in Registered : n # m => Lower(n) # Lower(m)

\* C40: a session whose status is completed or failed, in memory or in a row
\* of the store, keeps a terminal status in every later step.
C40_SessionStatusMonotonic ==
  [][\A k \in Keys :
       /\ (active[k] # None /\ active[k][1].status \in Terminal /\ active'[k] # None)
            => active'[k][1].status \in Terminal
       /\ \A i \in Rows(sessions, k) :
            sessions[k][i].status \in Terminal
              => /\ i \in Rows(sessions', k)
                 /\ sessions'[k][i].status \in Terminal]_vars

====
